---- MODULE Spec2Model ----
(***************************************************************************)
(* Half-life calculator (src/src/App.tsx).                                 *)
(*                                                                         *)
(* Two specifications share the variables below.                           *)
(*   CalcSpec  applies the pure function calculateActiveLevel to dose      *)
(*             collections, half-lives and evaluation instants drawn from  *)
(*             bounded sets.                                               *)
(*   Spec      is the App component: its state (useState hooks) and its    *)
(*             handlers addDose, removeDose, clearAllDoses and the form's  *)
(*             onChange handlers, with the wall clock read by Date.now().  *)
(*                                                                         *)
(* Numbers.  A JavaScript number is modelled exactly: a finite value is a  *)
(* reduced fraction n/d with d > 0, times 10^p10; d = 0 encodes the        *)
(* non-finite values (n = 1 Infinity, n = -1 -Infinity, n = 0 NaN).  p10   *)
(* is 0 except for a finite value too large or too small to be written as *)
(* a fraction of machine integers (1e308, 5e-324), which is kept as an     *)
(* integer times a power of ten; sign and finiteness of such a value are   *)
(* exact, arithmetic on it is left undefined.  Rounding of IEEE-754        *)
(* doubles is not modelled: equalities proved here hold of the code up to  *)
(* floating-point tolerance.                                               *)
(*                                                                         *)
(* Math.pow(0.5, x) is irrational for fractional x.  The model evaluates   *)
(* it for x a multiple of 1/2, as an element a + b*sqrt(1/2) of the field  *)
(* Q(sqrt 2), where sums, equality and order are exact.                    *)
(*                                                                         *)
(* Time.  A Date is held as its getTime() value, a number counted in ticks *)
(* of TickMs milliseconds relative to the Unix epoch, NaN for an Invalid   *)
(* Date.                                                                   *)
(***************************************************************************)
EXTENDS Integers, Sequences, FiniteSets, TLC

VARIABLES
  doses,          \* useState<Dose[]>: the dose collection
  halfLifeHours,  \* useState<number>: the configured half-life
  newDoseAmount,  \* useState<string>: the amount field, a sequence of characters
  newDoseUnit,    \* useState<Dose['unit']>: the unit selector
  newDoseTime,    \* useState<string>: the datetime-local field, <<>> when empty,
                  \* else <<m>>, m the number of minutes the text spells
  now,            \* the wall clock read by Date.now() / new Date(), in ticks
  ops,            \* number of steps taken so far (bounds the exploration)
  targetTime,     \* CalcSpec: config.targetTime of the call
  result          \* CalcSpec: outcome of the call to calculateActiveLevel

vars == <<doses, halfLifeHours, newDoseAmount, newDoseUnit, newDoseTime, now, ops,
          targetTime, result>>

(***************************************************************************)
(* Bounds of the exploration.                                              *)
(***************************************************************************)
\* CalcSpec: longest dose collection handed to calculateActiveLevel.
MaxDoses == 2
\* CalcSpec: dose timestamps and evaluation instants range over hours 0..MaxHour.
MaxHour == 3
\* Spec: number of steps (handler invocations and clock advances) explored.
MaxOps == 4

(***************************************************************************)
(* Exact arithmetic on JavaScript numbers.                                 *)
(***************************************************************************)
Abs(x) == IF x < 0 THEN -x ELSE x

RECURSIVE Gcd(_, _)
Gcd(a, b) == IF b = 0 THEN a ELSE Gcd(b, a % b)

\* The number n/d (d # 0) as a reduced fraction with a positive denominator.
Num(n, d) ==
  IF d = 1 THEN [n |-> n, d |-> 1, p10 |-> 0]
  ELSE LET g == Gcd(Abs(n), Abs(d))
           s == IF d < 0 THEN -1 ELSE 1
       IN  [n |-> (s * n) \div g, d |-> (s * d) \div g, p10 |-> 0]

Whole(k) == [n |-> k, d |-> 1, p10 |-> 0]
NaN == [n |-> 0, d |-> 0, p10 |-> 0]
Infinity == [n |-> 1, d |-> 0, p10 |-> 0]
\* The infinity of the sign of s (s # 0).
SignedInfinity(s) == [n |-> IF s < 0 THEN -1 ELSE 1, d |-> 0, p10 |-> 0]
\* The finite number k * 10^p, for a value outside the range of the fractions.
Scaled(k, p) == [n |-> k, d |-> 1, p10 |-> p]

\* isNaN(x), isFinite(x)
isNaN(x) == x.d = 0 /\ x.n = 0
isFinite(x) == x.d > 0

\* A finite number written as a fraction.
isFraction(x) == x.d > 0 /\ x.p10 = 0

RECURSIVE Pow2(_)
Pow2(k) == IF k = 0 THEN 1 ELSE 2 * Pow2(k - 1)
RECURSIVE Pow10(_)
Pow10(k) == IF k = 0 THEN 1 ELSE 10 * Pow10(k - 1)

\* The number of decimal digits of k > 0, and the number of its trailing zeros.
RECURSIVE NumDigits(_)
NumDigits(k) == IF k < 10 THEN 1 ELSE 1 + NumDigits(k \div 10)
RECURSIVE TrailingZeros(_)
TrailingZeros(k) == IF k % 10 # 0 THEN 0 ELSE 1 + TrailingZeros(k \div 10)

\* The number m * 10^t (m > 0 a machine integer of the given number of digits,
\* not a multiple of 10) as the nearest double: Infinity from 2^1024 - 2^970 =
\* 1.7976931348623158e308 on, 0 up to 2^-1075 = 2.4703282292062327e-324, a
\* positive finite number in between.  m * 10^t = lead * 10^order with
\* 1 <= lead < 10, and lead is compared in units of 10^-8.
roundToDouble(m, t, digits, order) ==
  IF order > 308 \/ (order = 308 /\ IF digits <= 9 THEN m * Pow10(9 - digits) >= 179769314
                                                    ELSE m >= 1797693135)
  THEN Infinity
  ELSE IF order < -324 \/ (order = -324 /\ (digits <= 9 => m * Pow10(9 - digits) <= 247032822))
  THEN Whole(0)
  ELSE IF t >= 0 /\ digits + t <= 9 THEN Whole(m * Pow10(t))
  ELSE IF t < 0 /\ t >= -9 THEN Num(m, Pow10(-t))
  ELSE Scaled(m, t)

\* The same for the number m * 10^t, for every machine integer m > 0.
decimalToNumber(m, t) ==
  LET z == TrailingZeros(m)
      digits == NumDigits(m) - z
  IN  roundToDouble(m \div Pow10(z), t + z, digits, digits - 1 + t + z)

\* The decimal order of magnitude of a finite number held with a power of ten.
orderOf(x) == NumDigits(Abs(x.n)) - 1 + x.p10
\* Every fraction is below half the spacing of the doubles around a number of
\* order 26 or more, and a number of order -27 or less is below half the spacing
\* around every fraction but 0: the sum rounds to the larger operand.
absorbs(x) == x.p10 # 0 /\ orderOf(x) >= 26
absorbed(x) == x.p10 # 0 /\ orderOf(x) <= -27

\* x + y, x - y, x * y, x / y: exactly on fractions, and as IEEE-754 defines them
\* when an operand is NaN or an infinity.  Of the numbers held with a power of
\* ten, a sum is taken with a fraction it absorbs or is absorbed by, and a
\* product with a whole number or with another such number.
Add(x, y) ==
  IF isFraction(x) /\ isFraction(y)
  THEN IF x.d = y.d THEN Num(x.n + y.n, x.d)
       ELSE LET g == Gcd(x.d, y.d)
                l == (x.d \div g) * y.d
            IN  Num(x.n * (l \div x.d) + y.n * (l \div y.d), l)
  ELSE CASE isNaN(x) \/ isNaN(y) -> NaN
         [] x.d = 0 /\ x.n # 0 -> (IF y.d = 0 /\ y.n # x.n THEN NaN ELSE x)
         [] y.d = 0 /\ y.n # 0 /\ x.d > 0 -> y
         [] isFraction(x) /\ y.d > 0 /\ absorbs(y) -> y
         [] isFraction(y) /\ x.d > 0 /\ absorbs(x) -> x
         [] isFraction(x) /\ y.d > 0 /\ absorbed(y) -> (IF x.n = 0 THEN y ELSE x)
         [] isFraction(y) /\ x.d > 0 /\ absorbed(x) -> (IF y.n = 0 THEN x ELSE y)
Neg(x) == [x EXCEPT !.n = -x.n]
withSign(sign, x) == IF sign < 0 THEN Neg(x) ELSE x
Sub(x, y) == Add(x, Neg(y))
Mul(x, y) ==
  IF isFraction(x) /\ isFraction(y)
  THEN IF x.d = 1 /\ y.d = 1 THEN Num(x.n * y.n, 1)
       ELSE LET g1 == Gcd(Abs(x.n), y.d)
                g2 == Gcd(Abs(y.n), x.d)
            IN  Num((x.n \div g1) * (y.n \div g2), (x.d \div g2) * (y.d \div g1))
  ELSE CASE isNaN(x) \/ isNaN(y) -> NaN
         [] x.d = 0 \/ y.d = 0 ->
              IF x.n = 0 \/ y.n = 0 THEN NaN ELSE SignedInfinity(x.n * y.n)
         [] x.d = 1 /\ y.d = 1 ->
              \* whole mantissas, one with a power of ten: rounded to the range
              IF x.n = 0 \/ y.n = 0 THEN Whole(0)
              ELSE withSign(IF (x.n < 0) # (y.n < 0) THEN -1 ELSE 1,
                            decimalToNumber(Abs(x.n) * Abs(y.n), x.p10 + y.p10))
Div(x, y) ==
  IF isFraction(x) /\ isFraction(y) /\ y.n # 0 THEN Mul(x, Num(y.d, y.n))
  ELSE CASE isNaN(x) \/ isNaN(y) -> NaN
         [] y.d = 0 -> IF x.d = 0 THEN NaN ELSE Whole(0)
         [] y.d > 0 /\ y.n = 0 -> IF x.n = 0 THEN NaN ELSE SignedInfinity(x.n)
         [] y.d > 0 /\ y.n # 0 /\ x.d = 0 -> SignedInfinity(x.n * y.n)

\* x < y and x <= y: false when either side is NaN; fractions are compared by
\* integer part and then fractional part.
Lt(x, y) ==
  IF isFraction(x) /\ isFraction(y)
  THEN IF x.d = y.d THEN x.n < y.n
       ELSE LET qx == x.n \div x.d
                qy == y.n \div y.d
            IN  \/ qx < qy
                \/ qx = qy /\ (x.n % x.d) * y.d < (y.n % y.d) * x.d
  ELSE CASE isNaN(x) \/ isNaN(y) -> FALSE
         [] x.d = 0 \/ y.d = 0 ->
              (x.d = 0 /\ x.n = -1 /\ y # x) \/ (y.d = 0 /\ y.n = 1 /\ y # x)
Le(x, y) == ~isNaN(x) /\ ~isNaN(y) /\ (x = y \/ Lt(x, y))

\* The comparisons with zero the code makes, on every number: a comparison with
\* NaN is false, -Infinity is below zero, Infinity is not.
LeZero(x) == IF x.d = 0 THEN x.n = -1 ELSE x.n <= 0
LtZero(x) == IF x.d = 0 THEN x.n = -1 ELSE x.n < 0

(***************************************************************************)
(* Levels: elements a + b*sqrt(1/2) of Q(sqrt 2), a and b fractions; a     *)
(* non-finite level is NaN or an infinity in a, with b = 0.                *)
(***************************************************************************)
Level(a, b) == [a |-> a, b |-> b]
LevelOf(x) == Level(x, Whole(0))
LevelZero == LevelOf(Whole(0))
LevelNaN == LevelOf(NaN)

\* The order of levels, used to state the properties.
\* p + q*sqrt(1/2) >= 0, decided exactly: when the signs differ, compare squares
\* (2*p^2 against q^2) over the common denominator.
LevelNonNeg(u) ==
  LET g == Gcd(u.a.d, u.b.d)
      l == (u.a.d \div g) * u.b.d
      p0 == u.a.n * (l \div u.a.d)
      q0 == u.b.n * (l \div u.b.d)
      c == Gcd(Abs(p0), Abs(q0))
      p == IF c = 0 THEN 0 ELSE p0 \div c
      q == IF c = 0 THEN 0 ELSE q0 \div c
  IN  IF p >= 0 /\ q >= 0 THEN TRUE
      ELSE IF p <= 0 /\ q <= 0 THEN FALSE
      ELSE IF p > 0 THEN 2 * p * p >= q * q
      ELSE q * q >= 2 * p * p
LevelLe(u, v) == LevelNonNeg(Level(Sub(v.a, u.a), Sub(v.b, u.b)))

\* u + v and x * u, for a number x.
LevelAdd(u, v) ==
  IF u.a.d = 0 \/ v.a.d = 0 THEN LevelOf(Add(u.a, v.a))
  ELSE Level(Add(u.a, v.a), Add(u.b, v.b))
LevelScale(x, u) ==
  IF u.a.d = 0 THEN LevelOf(Mul(x, u.a))
  ELSE IF x.d = 0 THEN
    (IF u = LevelZero THEN LevelNaN
     ELSE LevelOf(IF LevelNonNeg(u) THEN x ELSE Neg(x)))
  ELSE Level(Mul(x, u.a), Mul(x, u.b))

\* Faulty variant: the base is 2 instead of 0.5, so a dose grows instead of decaying.
MathPowHalf_baseTwo(x) ==
  CASE x.d = 0 -> (IF x.n = 0 THEN LevelNaN ELSE LevelOf(Infinity))
    [] x.d = 1 /\ x.n >= 0 /\ x.p10 = 0 -> Level(Whole(Pow2(x.n)), Whole(0))
    [] x.d = 2 /\ x.n >= 0 -> Level(Whole(0), Whole(Pow2((x.n + 1) \div 2)))

\* Math.pow(0.5, x) for x >= 0 a multiple of 1/2, for x = Infinity and for NaN.
MathPowHalf(x) ==
  CASE x.d = 0 /\ x.n = 0 -> LevelNaN
    [] x.d = 0 /\ x.n = 1 -> LevelZero
    [] x.d = 1 /\ x.n >= 0 /\ x.p10 = 0 -> Level(Num(1, Pow2(x.n)), Whole(0))
    [] x.d = 2 /\ x.n >= 0 -> Level(Whole(0), Num(1, Pow2((x.n - 1) \div 2)))

(***************************************************************************)
(* Time.                                                                   *)
(***************************************************************************)
\* One tick is one second: the 1000 ms of (1000 * 60 * 60).
TickMs == 1000
MsPerHour == 1000 * 60 * 60
MsPerDay == 24 * 60 * 60 * 1000
HourTicks == MsPerHour \div TickMs
DayTicks == MsPerDay \div TickMs
MinuteTicks == 60000 \div TickMs

(***************************************************************************)
(* UnitConverter and DecayAggregator.                                      *)
(***************************************************************************)
Units == {"mg", "ug", "g", "iu"}

\* Faulty variant: micrograms scaled up instead of down.
convertToMg_ugScaledUp(amount, unit) ==
  CASE unit = "g" -> Mul(amount, Whole(1000))
    [] unit = "mg" -> amount
    [] unit = "ug" -> Mul(amount, Whole(1000))
    [] unit = "iu" -> amount
    [] OTHER -> amount

convertToMg(amount, unit) ==
  CASE unit = "g" -> Mul(amount, Whole(1000))
    [] unit = "mg" -> amount
    [] unit = "ug" -> Div(amount, Whole(1000))
    [] unit = "iu" -> amount
    [] OTHER -> amount

\* (targetTimeMs - doseTimeMs) / (1000 * 60 * 60), for the getTime() values of
\* the evaluation instant (a whole number of ticks) and of the dose's timestamp
\* (a whole number of ticks, or NaN for an Invalid Date).
elapsedHours(targetTimeTicks, doseTime) ==
  IF isNaN(doseTime) THEN NaN
  ELSE Num((targetTimeTicks - doseTime.n) * TickMs, MsPerHour)

\* Faulty variant: a dose taken exactly at the evaluation instant is skipped as future.
reducer_instantIsFuture(total, dose, halfLife, target) ==
  LET elapsed == elapsedHours(target, dose.timestamp)
  IN  IF LeZero(elapsed) THEN total
      ELSE LevelAdd(total, LevelScale(convertToMg(dose.amount, dose.unit),
                                      MathPowHalf(Div(elapsed, halfLife))))

\* Faulty variant: the contribution replaces the running total instead of adding to it.
reducer_overwrites(total, dose, halfLife, target) ==
  LET elapsed == elapsedHours(target, dose.timestamp)
  IN  IF LtZero(elapsed) THEN total
      ELSE LevelScale(convertToMg(dose.amount, dose.unit),
                      MathPowHalf(Div(elapsed, halfLife)))

\* Faulty variant: the decay exponent ignores the half-life (elapsed hours used as is).
reducer_ignoresHalfLife(total, dose, halfLife, target) ==
  LET elapsed == elapsedHours(target, dose.timestamp)
  IN  IF LtZero(elapsed) THEN total
      ELSE LevelAdd(total, LevelScale(convertToMg(dose.amount, dose.unit),
                                      MathPowHalf(elapsed)))

\* The callback of doses.reduce: one dose's contribution added to the total.
reducer(total, dose, halfLife, target) ==
  LET elapsed == elapsedHours(target, dose.timestamp)
  IN  IF LtZero(elapsed) THEN total
      ELSE LevelAdd(total, LevelScale(convertToMg(dose.amount, dose.unit),
                                      MathPowHalf(Div(elapsed, halfLife))))

\* doses.reduce(reducer, 0), left to right.
RECURSIVE totalRemaining(_, _, _)
totalRemaining(ds, halfLife, target) ==
  IF ds = <<>> THEN LevelZero
  ELSE reducer(totalRemaining(SubSeq(ds, 1, Len(ds) - 1), halfLife, target),
               ds[Len(ds)], halfLife, target)

\* const { halfLifeHours, targetTime = new Date() } = config
targetTimeOf(config) ==
  IF "targetTime" \in DOMAIN config THEN config.targetTime ELSE now

\* What a call produces: a thrown Error or a returned value.
Thrown == [threw |-> TRUE, value |-> LevelZero]
Returned(v) == [threw |-> FALSE, value |-> v]

\* Faulty variant: a non-positive half-life is clamped to one hour instead of rejected.
calculateActiveLevel_clamps(ds, config) ==
  IF LeZero(config.halfLifeHours)
  THEN Returned(totalRemaining(ds, Whole(1), targetTimeOf(config)))
  ELSE Returned(totalRemaining(ds, config.halfLifeHours, targetTimeOf(config)))

\* Faulty variant: the running total starts from 1 instead of 0.
calculateActiveLevel_seedOne(ds, config) ==
  IF LeZero(config.halfLifeHours) THEN Thrown
  ELSE Returned(LevelAdd(LevelOf(Whole(1)),
                         totalRemaining(ds, config.halfLifeHours, targetTimeOf(config))))

calculateActiveLevel(ds, config) ==
  IF LeZero(config.halfLifeHours) THEN Thrown
  ELSE Returned(totalRemaining(ds, config.halfLifeHours, targetTimeOf(config)))

(***************************************************************************)
(* Strings the user types, as sequences of characters, and parseFloat.     *)
(***************************************************************************)
DigitChars == <<"0", "1", "2", "3", "4", "5", "6", "7", "8", "9">>
IsDigit(c) == \E i \in 1..10 : DigitChars[i] = c
DigitValue(c) == (CHOOSE i \in 1..10 : DigitChars[i] = c) - 1
InfinityChars == <<"I", "n", "f", "i", "n", "i", "t", "y">>

Drop(s, k) == SubSeq(s, k + 1, Len(s))
StartsWith(s, p) == Len(s) >= Len(p) /\ SubSeq(s, 1, Len(p)) = p

\* Length of the longest prefix of s made of decimal digits.
RECURSIVE DigitRun(_)
DigitRun(s) == IF s # <<>> /\ IsDigit(s[1]) THEN 1 + DigitRun(Tail(s)) ELSE 0

\* The value of a sequence of decimal digits (0 for the empty sequence).
RECURSIVE DigitsValue(_)
DigitsValue(s) ==
  IF s = <<>> THEN 0
  ELSE 10 * DigitsValue(SubSeq(s, 1, Len(s) - 1)) + DigitValue(s[Len(s)])

\* StrWhiteSpaceChar: the white space and line terminator characters; a
\* character with no escape is named by its code point.
WhiteSpaceChars ==
  { " ", "\t", "\n", "\r", "\f", "U+000B", "U+00A0", "U+FEFF", "U+1680", "U+2000",
    "U+2001", "U+2002", "U+2003", "U+2004", "U+2005", "U+2006", "U+2007", "U+2008",
    "U+2009", "U+200A", "U+2028", "U+2029", "U+202F", "U+205F", "U+3000" }

RECURSIVE TrimStart(_)
TrimStart(s) ==
  IF s # <<>> /\ s[1] \in WhiteSpaceChars THEN TrimStart(Tail(s)) ELSE s

\* The sign a string starts with, and the string after it.
signOf(s) == IF s # <<>> /\ s[1] = "-" THEN -1 ELSE 1
skipSign(s) == IF s # <<>> /\ s[1] \in {"+", "-"} THEN Tail(s) ELSE s
\* The number of digits of the fraction s starts with ("." and digits), and the
\* string after the fraction.
fractionDigits(s) == IF s # <<>> /\ s[1] = "." THEN DigitRun(Tail(s)) ELSE 0
skipFraction(s) == Drop(s, IF s # <<>> /\ s[1] = "." THEN fractionDigits(s) + 1 ELSE 0)
\* The value of the exponent part s starts with ("e" or "E", a sign, digits); 0
\* when there is none.
exponentValue(s) ==
  IF s # <<>> /\ s[1] \in {"e", "E"}
  THEN signOf(Tail(s)) * DigitsValue(SubSeq(skipSign(Tail(s)), 1, DigitRun(skipSign(Tail(s)))))
  ELSE 0

\* The value of the longest prefix of s that is an unsigned decimal literal
\* (Infinity, or digits, fraction and exponent); NaN when there is none.
unsignedLiteral(s) ==
  LET ni == DigitRun(s)
      nf == fractionDigits(Drop(s, ni))
      mantissa == DigitsValue(SubSeq(s, 1, ni) \o SubSeq(s, ni + 2, ni + 1 + nf))
      exponent == exponentValue(skipFraction(Drop(s, ni)))
  IN  IF StartsWith(s, InfinityChars) THEN Infinity
      ELSE IF ni = 0 /\ nf = 0 THEN NaN
      ELSE IF mantissa = 0 THEN Whole(0)
      ELSE decimalToNumber(mantissa, exponent - nf)

\* parseFloat(string): leading white space is skipped, then the longest prefix
\* that is a decimal literal (sign, Infinity, digits, fraction, exponent) is
\* converted; NaN when there is none.
parseFloat(str) ==
  withSign(signOf(TrimStart(str)), unsignedLiteral(skipSign(TrimStart(str))))

\* A valid floating-point number of HTML: an optional "-", digits and/or a "."
\* followed by digits, and an optional exponent of "e" or "E", an optional sign
\* and digits.
isExponentOrEnd(s) ==
  \/ s = <<>>
  \/ /\ s[1] \in {"e", "E"}
     /\ DigitRun(skipSign(Tail(s))) >= 1
     /\ DigitRun(skipSign(Tail(s))) = Len(skipSign(Tail(s)))
isUnsignedFloatingPointNumber(s) ==
  LET ni == DigitRun(s)
      rest == Drop(s, ni)
      nf == fractionDigits(rest)
  IN  /\ ni + nf >= 1
      /\ (rest # <<>> /\ rest[1] = ".") => nf >= 1
      /\ isExponentOrEnd(skipFraction(rest))
isValidFloatingPointNumber(s) ==
  isUnsignedFloatingPointNumber(IF s # <<>> /\ s[1] = "-" THEN Tail(s) ELSE s)

\* The value an <input type="number"> reports for the text typed into it (the
\* value sanitization of the number state): the text itself when it is a valid
\* floating-point number, the empty string otherwise.
numberInputValue(text) == IF isValidFloatingPointNumber(text) THEN text ELSE <<>>

(***************************************************************************)
(* The App component.                                                      *)
(***************************************************************************)
\* Environment: Date.prototype.getTimezoneOffset(), minutes west of Greenwich.
TimezoneOffsetMin == 5 * 60
\* Environment: the clock reading when the component is constructed.
Now0 == 60 + 59

\* new Date().toISOString().slice(0, 16): "YYYY-MM-DDTHH:MM" in UTC, held as the
\* number of minutes it spells.
toISOStringSlice16(t) == << t \div MinuteTicks >>
\* new Date(string).getTime(): "YYYY-MM-DDTHH:MM" is read as local time; the empty
\* string gives an Invalid Date, whose time value is NaN.
newDate(string) ==
  IF string = <<>> THEN NaN
  ELSE Whole((string[1] + TimezoneOffsetMin) * MinuteTicks)

defaultDoses ==
  << [daysAgo |-> 16, amount |-> Num(9375, 100)],
     [daysAgo |-> 15, amount |-> Num(9375, 100)],
     [daysAgo |-> 14, amount |-> Num(9375, 100)],
     [daysAgo |-> 13, amount |-> Num(9375, 100)],
     [daysAgo |-> 12, amount |-> Whole(0)],
     [daysAgo |-> 11, amount |-> Num(9375, 100)],
     [daysAgo |-> 10, amount |-> Whole(125)],
     [daysAgo |-> 9, amount |-> Whole(0)],
     [daysAgo |-> 8, amount |-> Whole(125)],
     [daysAgo |-> 7, amount |-> Whole(125)],
     [daysAgo |-> 6, amount |-> Whole(125)],
     [daysAgo |-> 5, amount |-> Whole(125)],
     [daysAgo |-> 4, amount |-> Whole(0)],
     [daysAgo |-> 3, amount |-> Whole(0)],
     [daysAgo |-> 2, amount |-> Whole(125)],
     [daysAgo |-> 1, amount |-> Num(9375, 100)],
     [daysAgo |-> 0, amount |-> Whole(125)] >>

\* The useState initializer of doses: the non-zero default doses, in micrograms.
initialDoses(t) ==
  LET kept == SelectSeq(defaultDoses, LAMBDA d : ~LeZero(d.amount) /\ ~isNaN(d.amount))
  IN  [index \in 1..Len(kept) |->
         [id |-> "default-" \o ToString(index - 1),
          amount |-> kept[index].amount,
          unit |-> "ug",
          timestamp |-> Whole(t - kept[index].daysAgo * DayTicks)]]

(***************************************************************************)
(* Array.prototype.sort(comparefn) for a comparefn that subtracts two      *)
(* numbers, the keys of the elements.  The difference is NaN when a key is *)
(* NaN, which sort reads as 0: the comparefn is then not a consistent      *)
(* order and the result is implementation-defined.  The outcomes are given *)
(* as arrangements of the indices 1..Len(keys) of the array.               *)
(***************************************************************************)
\* The sign of comparefn(x, y) as sort reads it.
compare(x, y) ==
  IF isNaN(x) \/ isNaN(y) THEN 0
  ELSE IF Lt(x, y) THEN -1
  ELSE IF Lt(y, x) THEN 1
  ELSE 0

\* No element is ahead of one that compares below it.
isOrdered(keys) ==
  \A i, j \in 1..Len(keys) : i < j => compare(keys[i], keys[j]) <= 0

\* What every insertion or merge sort guarantees of two neighbours of its
\* result: an element that came later in the array stands before one that came
\* earlier only if it compares strictly below it.
neighboursSorted(keys, order) ==
  \A i \in 1..(Len(order) - 1) :
    IF order[i] < order[i + 1]
    THEN compare(keys[order[i]], keys[order[i + 1]]) <= 0
    ELSE compare(keys[order[i]], keys[order[i + 1]]) < 0

\* The last index moved to position p, the other indices keeping their order.
lastMovedTo(n, p) ==
  [i \in 1..n |-> IF i < p THEN i ELSE IF i = p THEN n ELSE i - 1]

\* segments[1], separators[1], segments[2], ..., in one sequence.
RECURSIVE joinSegments(_, _)
joinSegments(segments, separators) ==
  IF separators = <<>> THEN segments[1]
  ELSE segments[1] \o << separators[1] >> \o
       joinSegments(Tail(segments), Tail(separators))

\* The arrangements in which the elements between two NaN keys ascend.
ascendingBetweenNaN(keys) ==
  LET n == Len(keys)
      indices == [i \in 1..n |-> i]
      nans == { i \in 1..n : isNaN(keys[i]) }
      others == (1..n) \ nans
      k == Cardinality(nans)
      before(i, j) ==
        compare(keys[i], keys[j]) < 0 \/ (compare(keys[i], keys[j]) = 0 /\ i < j)
      segment(g, j) ==
        SortSeq(SelectSeq(indices, LAMBDA i : i \in others /\ g[i] = j), before)
  IN  { joinSegments([j \in 1..(k + 1) |-> segment(g, j)], separators) :
          g \in [others -> 1..(k + 1)],
          separators \in { q \in [1..k -> nans] :
                             \A a, b \in 1..k : a # b => q[a] # q[b] } }

sortOutcomes(keys) ==
  LET n == Len(keys)
      indices == [i \in 1..n |-> i]
      before(i, j) == Lt(keys[i], keys[j]) \/ (~Lt(keys[j], keys[i]) /\ i < j)
  IN  IF \A i \in 1..n : ~isNaN(keys[i])
      THEN \* a consistent order: the stable sort
           { SortSeq(indices, before) }
      ELSE IF isOrdered(SubSeq(keys, 1, n - 1))
      THEN \* only the last element may be out of place: its neighbours are sorted
           { lastMovedTo(n, p) : p \in { q \in 1..n : neighboursSorted(keys, lastMovedTo(n, q)) } }
      ELSE { order \in ascendingBetweenNaN(keys) : neighboursSorted(keys, order) }

\* [...].sort((a, b) => a.timestamp.getTime() - b.timestamp.getTime())
sortByTimestamp(s) ==
  { [i \in 1..Len(s) |-> s[order[i]]] :
      order \in sortOutcomes([i \in 1..Len(s) |-> s[i].timestamp]) }

\* Rendering calls calculateActiveLevel for a non-empty collection (currentLevel,
\* generateChartData); the Error it throws for a non-positive half-life is not
\* caught, which unmounts the component: no handler runs afterwards.
renderThrows == doses # <<>> /\ LeZero(halfLifeHours)
Mounted == ~renderThrows

\* The instants generateChartData samples (the timestamp field of its data
\* points), for a non-empty collection and a positive half-life.
numPoints == 100

\* Math.min(...numbers): NaN as soon as one of the numbers is NaN.
MathMin(numbers) ==
  IF \E x \in numbers : isNaN(x) THEN NaN
  ELSE CHOOSE m \in numbers : \A x \in numbers : Le(m, x)

\* for (let i = 0; i <= numPoints; i++) importantTimes.add(startTime + i * timeStep)
gridTimes(startTime, endTime) ==
  LET timeStep == Div(Sub(endTime, startTime), Whole(numPoints))
  IN  [i \in 1..(numPoints + 1) |-> Add(startTime, Mul(Whole(i - 1), timeStep))]

\* A number of milliseconds, in ticks.
msToTicks(ms) ==
  IF ms.d = 0 THEN ms
  ELSE IF ms.p10 = 0 THEN Num(ms.n, ms.d * TickMs)
  ELSE withSign(ms.n, decimalToNumber(Abs(ms.n), ms.p10 - 3))

\* futureHours * 60 * 60 * 1000, in ticks.  The product is rounded to the range
\* of the doubles where it is formed, in milliseconds; a fraction is far from
\* the limits of the range and is multiplied in ticks directly.
futureTicks(futureHours) ==
  IF isFraction(futureHours) THEN Mul(futureHours, Whole(HourTicks))
  ELSE msToTicks(Mul(Mul(Mul(futureHours, Whole(60)), Whole(60)), Whole(1000)))

\* The numbers added to importantTimes, in the order of the calls to add.
addedTimes(ds, halfLife, clock) ==
  LET doseTimes == [i \in 1..Len(ds) |-> ds[i].timestamp]
      oldestDose == MathMin({ ds[i].timestamp : i \in 1..Len(ds) })
      startTime == MathMin({ oldestDose, Whole(clock) })
      futureHours == Mul(halfLife, Whole(5))
      endTime == Add(Whole(clock), futureTicks(futureHours))
  IN  doseTimes \o gridTimes(startTime, endTime)

\* Array.from(new Set(s)): a Set keeps the first copy of each number (NaN included).
arrayFromSet(s) ==
  LET marked == [i \in 1..Len(s) |->
                   [value |-> s[i], repeat |-> \E j \in 1..(i - 1) : s[j] = s[i]]]
      kept == SelectSeq(marked, LAMBDA m : ~m.repeat)
  IN  [i \in 1..Len(kept) |-> kept[i].value]

sortAscending(s) == SortSeq(s, LAMBDA x, y : Lt(x, y))
\* A number equal to its predecessor is dropped.
dropRepeats(s) ==
  LET marked == [i \in 1..Len(s) |-> [value |-> s[i], repeat |-> i > 1 /\ s[i] = s[i - 1]]]
      kept == SelectSeq(marked, LAMBDA m : ~m.repeat)
  IN  [i \in 1..Len(kept) |-> kept[i].value]

\* Array.from(importantTimes).sort((a, b) => a - b): the arrays sort may return.
\* When every number is finite there is one, the ascending array of the distinct
\* numbers, computed here by sorting first and dropping the repeats after.
sortedTimes(ds, halfLife, clock) ==
  LET added == addedTimes(ds, halfLife, clock)
  IN  IF \A i \in 1..Len(added) : isFinite(added[i])
      THEN { dropRepeats(sortAscending(added)) }
      ELSE LET times == arrayFromSet(added)
           IN  { [i \in 1..Len(times) |-> times[order[i]]] : order \in sortOutcomes(times) }

(***************************************************************************)
(* Spec: the App component's handlers.                                     *)
(***************************************************************************)
\* What the user types into the amount field.
AmountInputs ==
  { <<>>, <<"0">>, <<"1", ".", "5">>, <<"1", "e", "9", "9", "9">>, InfinityChars }
\* What the user types into the half-life field.
HalfLifeInputs ==
  { <<>>, <<"0", ".", "5">>, <<"1", "e", "3", "0", "5">>, <<"1", "e", "9", "9", "9">> }
\* What the datetime-local field reports: the empty string once cleared, else the
\* date and time picked, here twenty days before the epoch and two thousand
\* hours after it (in minutes).
TimeInputs == { <<>>, << -(20 * 24 * 60) >>, << 2000 * 60 >> }
\* By how many ticks the clock advances between two steps.
ClockAdvances == { 1 }
\* By how many ticks the clock advances between two readings within one handler.
ReadAdvances == { 0, 1 }

NotCalled == [done |-> FALSE, threw |-> FALSE, value |-> LevelZero]

\* The useState initializers: doses and newDoseTime each read the clock.
Init ==
  /\ doses = initialDoses(Now0)
  /\ halfLifeHours = Whole(200)
  /\ newDoseAmount = <<>>
  /\ newDoseUnit = "mg"
  /\ \E dt \in ReadAdvances :
       /\ newDoseTime = toISOStringSlice16(Now0 + dt)
       /\ now = Now0 + dt
  /\ ops = 0
  /\ targetTime = Now0
  /\ result = NotCalled

Step == Mounted /\ ops < MaxOps /\ ops' = ops + 1 /\ UNCHANGED <<targetTime, result>>

\* onChange of the half-life input: parseFloat(e.target.value) || 0
setHalfLifeHours ==
  /\ Step
  /\ \E text \in HalfLifeInputs :
       LET v == parseFloat(numberInputValue(text))
       IN  halfLifeHours' = IF isNaN(v) \/ v = Whole(0) THEN Whole(0) ELSE v
  /\ UNCHANGED <<doses, newDoseAmount, newDoseUnit, newDoseTime, now>>

setNewDoseAmount ==
  /\ Step
  /\ \E text \in AmountInputs : newDoseAmount' = numberInputValue(text)
  /\ UNCHANGED <<doses, halfLifeHours, newDoseUnit, newDoseTime, now>>

setNewDoseUnit ==
  /\ Step
  /\ \E unit \in Units : newDoseUnit' = unit
  /\ UNCHANGED <<doses, halfLifeHours, newDoseAmount, newDoseTime, now>>

setNewDoseTime ==
  /\ Step
  /\ \E value \in TimeInputs : newDoseTime' = value
  /\ UNCHANGED <<doses, halfLifeHours, newDoseAmount, newDoseUnit, now>>

addDose ==
  /\ Step
  /\ LET amount == parseFloat(newDoseAmount)
         newDose == [id |-> ToString(now),
                     amount |-> amount,
                     unit |-> newDoseUnit,
                     timestamp |-> newDate(newDoseTime)]
     IN  IF isNaN(amount) \/ LeZero(amount)
         THEN UNCHANGED <<doses, newDoseAmount, newDoseTime, now>>
         ELSE \* the clock is read for the id, and again for the new time field
              \E dt \in ReadAdvances :
                /\ doses' \in sortByTimestamp(Append(doses, newDose))
                /\ newDoseAmount' = <<>>
                /\ newDoseTime' = toISOStringSlice16(now + dt)
                /\ now' = now + dt
  /\ UNCHANGED <<halfLifeHours, newDoseUnit>>

removeDose(id) ==
  /\ Step
  /\ doses' = SelectSeq(doses, LAMBDA dose : dose.id # id)
  /\ UNCHANGED <<halfLifeHours, newDoseAmount, newDoseUnit, newDoseTime, now>>

\* The Remove button of a row of the dose table.
clickRemove == \E i \in 1..Len(doses) : removeDose(doses[i].id)

clearAllDoses ==
  /\ Step
  /\ \E confirmed \in BOOLEAN :
       IF confirmed THEN doses' = <<>> ELSE UNCHANGED doses
  /\ UNCHANGED <<halfLifeHours, newDoseAmount, newDoseUnit, newDoseTime, now>>

\* Time passes between two events, whether or not the component is still mounted.
Tick ==
  /\ ops < MaxOps /\ ops' = ops + 1 /\ UNCHANGED <<targetTime, result>>
  /\ \E dt \in ClockAdvances : now' = now + dt
  /\ UNCHANGED <<doses, halfLifeHours, newDoseAmount, newDoseUnit, newDoseTime>>

Next ==
  \/ setHalfLifeHours
  \/ setNewDoseAmount
  \/ setNewDoseUnit
  \/ setNewDoseTime
  \/ addDose
  \/ clickRemove
  \/ clearAllDoses
  \/ Tick

Spec == Init /\ [][Next]_vars

(***************************************************************************)
(* CalcSpec: calculateActiveLevel applied to bounded inputs.               *)
(***************************************************************************)
DoseKinds ==
  { [amount |-> Whole(1000), unit |-> "ug"],
    [amount |-> Whole(1), unit |-> "mg"],
    [amount |-> Num(1, 1000), unit |-> "g"],
    [amount |-> Whole(2), unit |-> "iu"] }
CalcDoses ==
  { [id |-> "dose", amount |-> k.amount, unit |-> k.unit,
     timestamp |-> Whole(h * HourTicks)] :
      k \in DoseKinds, h \in 0..MaxHour }
CalcCollections == UNION { [1..n -> CalcDoses] : n \in 0..MaxDoses }
CalcHalfLives == { Whole(-1), Whole(0), Num(1, 2), Whole(1), Whole(2) }
CalcInstants == { h * HourTicks : h \in 0..MaxHour }

CalcInit ==
  /\ doses \in CalcCollections
  /\ halfLifeHours \in CalcHalfLives
  /\ targetTime \in CalcInstants
  /\ now = targetTime
  /\ result = NotCalled
  /\ newDoseAmount = <<>>
  /\ newDoseUnit = "mg"
  /\ newDoseTime = <<>>
  /\ ops = 0

Outcome(call) == [done |-> TRUE, threw |-> call.threw, value |-> call.value]

\* calculateActiveLevel(doses, { halfLifeHours, targetTime })
EvaluateAt ==
  /\ ~result.done
  /\ result' = Outcome(calculateActiveLevel(doses,
                  [halfLifeHours |-> halfLifeHours, targetTime |-> targetTime]))
  /\ UNCHANGED <<doses, halfLifeHours, newDoseAmount, newDoseUnit, newDoseTime, now,
                 ops, targetTime>>

\* calculateActiveLevel(doses, { halfLifeHours }): the instant defaults to now.
EvaluateNow ==
  /\ ~result.done
  /\ result' = Outcome(calculateActiveLevel(doses, [halfLifeHours |-> halfLifeHours]))
  /\ UNCHANGED <<doses, halfLifeHours, newDoseAmount, newDoseUnit, newDoseTime, now,
                 ops, targetTime>>

CalcNext == EvaluateAt \/ EvaluateNow

CalcSpec == CalcInit /\ [][CalcNext]_vars

(***************************************************************************)
(* Properties of calculateActiveLevel, checked under CalcSpec.             *)
(***************************************************************************)
Called == result.done
ReturnedLevel == result.done /\ ~result.threw
Range(s) == { s[i] : i \in 1..Len(s) }
\* The getTime() of a dose's timestamp, in ticks.
timeOf(d) == d.timestamp.n

\* The level calculateActiveLevel returns for collection ds at instant t under
\* the state's half-life.
levelAt(ds, t) ==
  calculateActiveLevel(ds, [halfLifeHours |-> halfLifeHours, targetTime |-> t]).value

RECURSIVE sumOfSingles(_, _)
sumOfSingles(ds, t) ==
  IF ds = <<>> THEN LevelZero
  ELSE LevelAdd(sumOfSingles(SubSeq(ds, 1, Len(ds) - 1), t), levelAt(<<ds[Len(ds)]>>, t))

\* C1: whenever halfLifeHours <= 0, calculateActiveLevel throws, whatever the
\* dose collection and the evaluation instant: no level is returned and the
\* half-life is not clamped to a valid one.
C1_InvalidConfigurationRaised ==
  (Called /\ LeZero(halfLifeHours)) => (result.threw /\ result.value = LevelZero)

\* C1 witness: a call on a non-empty collection with halfLifeHours = 0 has thrown.
C1_Witness ==
  Called /\ halfLifeHours = Whole(0) /\ doses # <<>> /\ result.threw

\* C2 as claimed: for a fixed collection and half-life h > 0, the level at a later
\* instant never exceeds the level at an earlier one.
C2_Original ==
  ReturnedLevel =>
    \A t1 \in CalcInstants :
      t1 <= targetTime => LevelLe(result.value, levelAt(doses, t1))

\* C2 as amended: for a fixed collection of doses of positive amount and a
\* half-life h > 0, the level at t2 does not exceed the level at t1 <= t2 provided
\* no dose has its timestamp in (t1, t2]; a dose taken in between raises the level.
C2_NonIncreasingBetweenDoses ==
  ReturnedLevel =>
    \A t1 \in CalcInstants :
      ( /\ t1 <= targetTime
        /\ \A i \in 1..Len(doses) :
             ~(t1 < timeOf(doses[i]) /\ timeOf(doses[i]) <= targetTime) )
      => LevelLe(result.value, levelAt(doses, t1))

\* C2 witness: a level that has strictly decayed since an earlier instant, with no
\* dose taken in between.
C2_Witness ==
  /\ ReturnedLevel
  /\ \E t1 \in CalcInstants :
       /\ t1 < targetTime
       /\ \A i \in 1..Len(doses) : timeOf(doses[i]) <= t1
       /\ doses # <<>>
       /\ levelAt(doses, t1) # result.value
       /\ LevelLe(result.value, levelAt(doses, t1))

\* C3: doses timestamped strictly after the evaluation instant contribute exactly
\* 0 (the total is that of the collection without them), while a dose timestamped
\* at the evaluation instant is counted, with its full converted amount.
C3_FutureDosesContributeZero ==
  ReturnedLevel =>
    /\ result.value =
         levelAt(SelectSeq(doses, LAMBDA d : timeOf(d) <= targetTime), targetTime)
    /\ \A i \in 1..Len(doses) :
         timeOf(doses[i]) = targetTime =>
           LevelLe(LevelOf(convertToMg(doses[i].amount, doses[i].unit)), result.value)

\* C3 witness: a returned level for a collection holding both a dose in the future
\* of the evaluation instant and a dose taken exactly at it.
C3_Witness ==
  /\ ReturnedLevel
  /\ \E i \in 1..Len(doses) : timeOf(doses[i]) > targetTime
  /\ \E i \in 1..Len(doses) : timeOf(doses[i]) = targetTime

\* C4: for a single dose of amount A in unit u taken at t and a half-life h > 0,
\* the level at t + k*h is convertToMg(A, u) / 2^k for every integer k >= 0.
C4_SingleDoseHalving ==
  (ReturnedLevel /\ Len(doses) = 1) =>
    \A k \in 0..(2 * MaxHour) :
      Mul(Whole(k * HourTicks), halfLifeHours) = Whole(targetTime - timeOf(doses[1]))
      => result.value =
           LevelOf(Div(convertToMg(doses[1].amount, doses[1].unit), Whole(Pow2(k))))

\* C4 witness: a single dose evaluated exactly one half-life of two hours after it
\* was taken.
C4_Witness ==
  /\ ReturnedLevel
  /\ Len(doses) = 1
  /\ halfLifeHours = Whole(2)
  /\ targetTime - timeOf(doses[1]) = 2 * HourTicks
  /\ result.value = LevelOf(Div(convertToMg(doses[1].amount, doses[1].unit), Whole(2)))

\* C5: the total is the sum of the levels of each dose taken alone, and does not
\* depend on the order of the doses in the collection.
C5_Additive ==
  ReturnedLevel =>
    /\ result.value = sumOfSingles(doses, targetTime)
    /\ \A p \in Permutations(1..Len(doses)) :
         levelAt([i \in 1..Len(doses) |-> doses[p[i]]], targetTime) = result.value

\* C5 witness: 1 mg taken at T and 1 mg taken one half-life later, evaluated at the
\* second dose: 1/2 + 1.
C5_Witness ==
  /\ ReturnedLevel
  /\ Len(doses) = 2
  /\ halfLifeHours = Whole(1)
  /\ timeOf(doses[1]) + HourTicks = timeOf(doses[2])
  /\ timeOf(doses[2]) = targetTime
  /\ result.value = LevelOf(Num(3, 2))

\* C6 as claimed: an empty collection yields level 0 for every half-life and every
\* evaluation instant.
C6_Original ==
  (Called /\ doses = <<>>) => (~result.threw /\ result.value = LevelZero)

\* C6 as amended: an empty collection yields level 0 for every half-life h > 0 and
\* every evaluation instant; for h <= 0 the call throws instead of returning 0.
C6_EmptyIsZeroWhenValid ==
  (Called /\ doses = <<>>) =>
    IF LeZero(halfLifeHours) THEN result.threw
    ELSE ~result.threw /\ result.value = LevelZero

\* C6 witness: a call on the empty collection with a positive half-life returned 0.
C6_Witness ==
  Called /\ doses = <<>> /\ ~LeZero(halfLifeHours) /\ ~result.threw
  /\ result.value = LevelZero

\* How many of a mass unit make one milligram.
perMg(unit) ==
  CASE unit = "mg" -> Whole(1) [] unit = "ug" -> Whole(1000) [] unit = "g" -> Num(1, 1000)
\* The dose of the same mass as d, entered in mass unit u (an IU dose is kept).
sameMassIn(d, u) ==
  IF d.unit = "iu" THEN d
  ELSE [d EXCEPT !.amount = Mul(Div(d.amount, perMg(d.unit)), perMg(u)), !.unit = u]

\* C7: conversion to milligrams follows the fixed table (mg and IU unchanged, g
\* times 1000, ug divided by 1000); 1000 ug, 1 mg and 0.001 g convert to the same
\* value, and doses re-entered with the same mass in another unit give the same
\* level.
C7_UnitConversion ==
  /\ convertToMg(Whole(1000), "ug") = Whole(1)
  /\ convertToMg(Whole(1), "mg") = Whole(1)
  /\ convertToMg(Num(1, 1000), "g") = Whole(1)
  /\ \A i \in 1..Len(doses) :
       convertToMg(doses[i].amount, doses[i].unit) =
         CASE doses[i].unit = "mg" -> doses[i].amount
           [] doses[i].unit = "iu" -> doses[i].amount
           [] doses[i].unit = "g" -> Mul(doses[i].amount, Whole(1000))
           [] doses[i].unit = "ug" -> Div(doses[i].amount, Whole(1000))
  /\ ReturnedLevel =>
       \A u \in {"mg", "ug", "g"} :
         levelAt([i \in 1..Len(doses) |-> sameMassIn(doses[i], u)], targetTime)
           = result.value

\* C7 witness: a returned level to which a dose in micrograms and a dose in grams
\* both contribute.
C7_Witness ==
  /\ ReturnedLevel
  /\ \E i, j \in 1..Len(doses) :
       /\ doses[i].unit = "ug" /\ timeOf(doses[i]) <= targetTime
       /\ doses[j].unit = "g" /\ timeOf(doses[j]) <= targetTime
  /\ result.value # LevelZero

(***************************************************************************)
(* Properties of the App component, checked under Spec.                    *)
(***************************************************************************)
\* C8 as claimed: every dose in the collection has a positive finite amount,
\* because addDose rejects every other submitted amount.
C8_Original ==
  \A i \in 1..Len(doses) : isFinite(doses[i].amount) /\ ~LeZero(doses[i].amount)

\* The series of instants the chart is built from, in the current state: the
\* arrays the sort of generateChartData may return.
chartOutcomes == sortedTimes(doses, halfLifeHours, now)
chartStart == MathMin({ doses[i].timestamp : i \in 1..Len(doses) } \cup { Whole(now) })
chartEnd == Add(Whole(now), Mul(halfLifeHours, Whole(5 * HourTicks)))
doseTimeSet == { doses[i].timestamp : i \in 1..Len(doses) }
ChartBuilt == doses # <<>> /\ Mounted
\* C9 as claimed: the instants are strictly ascending, consist of every dose
\* timestamp plus 100 grid points, and all lie between min(earliest dose, now) and
\* now + 5 * halfLifeHours.
C9_Original ==
  ChartBuilt =>
    \A times \in chartOutcomes :
      LET instants == Range(times)
          start == chartStart
          end == chartEnd
      IN  /\ \A i \in 1..(Len(times) - 1) : Lt(times[i], times[i + 1])
          /\ doseTimeSet \subseteq instants
          /\ Cardinality(instants \ doseTimeSet) <= 100
          /\ \A x \in instants : Le(start, x) /\ Le(x, end)

\* C10 as claimed: the ids of the doses in the collection are pairwise distinct.
C10_Original ==
  \A i, j \in 1..Len(doses) : i # j => doses[i].id # doses[j].id

====
